---------------------------- MODULE Spec2Model ----------------------------
(***************************************************************************)
(* The wire contract of gdc_rust_types.  The crate is a set of type        *)
(* declarations whose behaviour is their serde (de)serialization: every    *)
(* declaration is transcribed below as a descriptor (its fields, their     *)
(* types, its serde attributes), and Ser / De compute what the derived     *)
(* Serialize / Deserialize implementations do with a descriptor.           *)
(*                                                                         *)
(* JSON values are one-field records, the field naming the kind:           *)
(*   [null |-> TRUE]  [b |-> BOOLEAN]  [n |-> Int]  [s |-> STRING]         *)
(*   [a |-> sequence of JSON]  [o |-> function from member names to JSON]  *)
(* Rust values: a struct is a record of its fields; an enum value is a     *)
(* one-field record [Variant |-> payload]; Option is [none |-> TRUE] or    *)
(* [some |-> x]; Vec is a sequence; IndexMap<String, T> is a function from *)
(* its keys.                                                               *)
(***************************************************************************)
EXTENDS Integers, Sequences, FiniteSets, TLC

VARIABLES ty, val, wire, res, echo, pc

vars == <<ty, val, wire, res, echo, pc>>

(* ------------------------------ bounds -------------------------------- *)

\* The nesting depth (named types entered) of the values that are built.
MaxDepth == 2

\* The longest Vec that is built.
MaxLen == 2

(* ------------------------------- JSON --------------------------------- *)

JNull == [null |-> TRUE]

JStr(x) == [s |-> x]

JNum(x) == [n |-> x]

JArr(x) == [a |-> x]

JObj(x) == [o |-> x]

EmptyMap == << >>

IsNull(j) == "null" \in DOMAIN j

IsStr(j) == "s" \in DOMAIN j

IsArr(j) == "a" \in DOMAIN j

IsObj(j) == "o" \in DOMAIN j

IsScalar(j) == ~IsArr(j) /\ ~IsObj(j)

(* --------------------------- Rust values ------------------------------ *)

None == [none |-> TRUE]

Some(x) == [some |-> x]

Ok(x) == [ok |-> x]

Err(m) == [err |-> m]

IsOk(r) == "ok" \in DOMAIN r

\* The variant an enum value is of, and what the variant holds.
VariantName(v) == CHOOSE k \in DOMAIN v : TRUE

Payload(v) == v[VariantName(v)]

Variant(name, x) == [k \in {name} |-> x]

(* --------------------------- identifiers ------------------------------ *)

RECURSIVE Cat(_)
\* An identifier is spelt as its characters; Cat gives the string.
Cat(cs) == IF cs = << >> THEN "" ELSE Head(cs) \o Cat(Tail(cs))

Upper == <<"A", "B", "C", "D", "E", "F", "G", "H", "I", "J", "K", "L", "M",
           "N", "O", "P", "Q", "R", "S", "T", "U", "V", "W", "X", "Y", "Z">>

Lower == <<"a", "b", "c", "d", "e", "f", "g", "h", "i", "j", "k", "l", "m",
           "n", "o", "p", "q", "r", "s", "t", "u", "v", "w", "x", "y", "z">>

IsUpper(c) == \E i \in DOMAIN Upper : Upper[i] = c

ToLower(c) == IF IsUpper(c) THEN Lower[CHOOSE i \in DOMAIN Upper : Upper[i] = c] ELSE c

RECURSIVE Separated(_, _, _)
\* serde's rename rule for variants: every upper-case letter but the first
\* starts a new word, words are lower-cased and joined by sep.
Separated(cs, i, sep) ==
    IF i > Len(cs) THEN ""
    ELSE (IF i > 1 /\ IsUpper(cs[i]) THEN sep ELSE "") \o ToLower(cs[i])
         \o Separated(cs, i + 1, sep)

SnakeCase(cs) == Separated(cs, 1, "_")

KebabCase(cs) == Separated(cs, 1, "-")

Rename(rule, cs) ==
    CASE rule = "snake_case" -> SnakeCase(cs)
      [] rule = "kebab-case" -> KebabCase(cs)
      [] OTHER -> Cat(cs)

(* ------------------------- type expressions --------------------------- *)

TString == [k |-> "string"]

TBool == [k |-> "bool"]

TU64 == [k |-> "u64"]

TI64 == [k |-> "i64"]

\* serde_json::Value
TValue == [k |-> "value"]

Opt(t) == [k |-> "option", of |-> t]

Vec(t) == [k |-> "vec", of |-> t, nonempty |-> FALSE]

\* A Vec<String> documented as a qualified name ("Must be non-empty"): the
\* type is a plain Vec, the flag only keeps built values to the documented
\* ones.
NameVec == [k |-> "vec", of |-> TString, nonempty |-> TRUE]

IndexMap(t) == [k |-> "map", of |-> t]

Box(t) == t

Ref(name) == [k |-> "ref", name |-> name]

\* A field: its Rust name, its name on the wire, its type, and whether it
\* carries skip_serializing_if = "Option::is_none" itself.
Fld(name, t) == [name |-> name, wire |-> name, ty |-> t, skip_if_none |-> FALSE]

FldSkip(name, t) == [name |-> name, wire |-> name, ty |-> t, skip_if_none |-> TRUE]

\* A variant with named fields; rename is "" unless #[serde(rename = ..)].
Var(name, fields) == [name |-> name, rename |-> "", fields |-> fields]

VarAs(name, rename, fields) == [name |-> name, rename |-> rename, fields |-> fields]

\* A variant holding one unnamed value.
Newtype(name, t) == [name |-> name, rename |-> "", newtype |-> t]

Struct(skip_none, fields) == [k |-> "struct", skip_none |-> skip_none, fields |-> fields]

Tagged(skip_none, variants) ==
    [k |-> "tagged", tag |-> "type", rename_all |-> "snake_case",
     skip_none |-> skip_none, variants |-> variants]

Untagged(variants) == [k |-> "untagged", skip_none |-> FALSE, variants |-> variants]

UnitEnum(rule, names) ==
    [k |-> "unit_enum", rename_all |-> rule,
     variants |-> [i \in DOMAIN names |-> Var(names[i], << >>)]]

EnumStr(rule, names) ==
    [k |-> "enum_str", rename_all |-> rule, other |-> "Other",
     variants |-> [i \in DOMAIN names |-> Var(names[i], << >>)]]


(* ------------------- capabilities.rs: name types ---------------------- *)

TableName == NameVec

FunctionName == NameVec

ColumnName == TString

ScalarType == TString

AggregateFunction == TString

UpdateOperator == TString

(* ----------------------------- query.rs ------------------------------- *)

QueryRequest ==
    Struct(TRUE, <<
        Fld("foreach", Opt(Vec(IndexMap(Ref("ScalarValue"))))),
        Fld("interpolated_queries", Opt(IndexMap(Ref("InterpolatedQuery")))),
        Fld("query", Ref("Query")),
        Fld("target", Ref("Target")),
        Fld("relationships", Vec(Ref("TableRelationships"))) >>)

InterpolatedQuery ==
    Struct(TRUE, <<
        Fld("id", TString),
        Fld("items", Vec(Ref("InterpolatedItem"))) >>)

InterpolatedItem ==
    Tagged(FALSE, <<
        Var(<<"T", "e", "x", "t">>, << Fld("value", TString) >>),
        Var(<<"S", "c", "a", "l", "a", "r">>, << Fld("value", TValue), Fld("value_type", ScalarType) >>) >>)

\* Target with its variants' names kept as declared (no rename_all).
TargetAsDeclared ==
    [k |-> "tagged", tag |-> "type", rename_all |-> "", skip_none |-> FALSE,
     variants |-> <<
        Var(<<"T", "a", "b", "l", "e">>, << Fld("name", TableName) >>),
        Var(<<"I", "n", "t", "e", "r", "p", "o", "l", "a", "t", "e", "d">>, << Fld("id", TString) >>),
        Var(<<"F", "u", "n", "c", "t", "i", "o", "n">>, << Fld("name", FunctionName),
                           Fld("arguments", Vec(Ref("FunctionRequestArgument"))) >>) >>]

Target ==
    Tagged(FALSE, <<
        Var(<<"T", "a", "b", "l", "e">>, << Fld("name", TableName) >>),
        Var(<<"I", "n", "t", "e", "r", "p", "o", "l", "a", "t", "e", "d">>, << Fld("id", TString) >>),
        Var(<<"F", "u", "n", "c", "t", "i", "o", "n">>, << Fld("name", FunctionName),
                           Fld("arguments", Vec(Ref("FunctionRequestArgument"))) >>) >>)

FunctionRequestArgument ==
    Tagged(FALSE, <<
        Var(<<"N", "a", "m", "e", "d">>, << Fld("name", TString), Fld("value", Ref("ArgumentValue")) >>) >>)

ArgumentValue ==
    Tagged(FALSE, <<
        Var(<<"S", "c", "a", "l", "a", "r">>, << Fld("value", TValue), Fld("value_type", ScalarType) >>) >>)

ScalarValue ==
    Struct(FALSE, << Fld("value", TValue), Fld("value_type", ScalarType) >>)

TableRelationships ==
    Struct(FALSE, <<
        Fld("relationships", IndexMap(Ref("Relationship"))),
        Fld("source_table", NameVec) >>)

Relationship ==
    Struct(FALSE, <<
        Fld("column_mapping", IndexMap(ColumnName)),
        Fld("relationship_type", Ref("RelationshipType")),
        Fld("target", Ref("Target")) >>)

RelationshipType == UnitEnum("snake_case", << <<"O", "b", "j", "e", "c", "t">>, <<"A", "r", "r", "a", "y">> >>)

\* Query without #[skip_serializing_none].
QueryKeepingNone ==
    Struct(FALSE, <<
        Fld("aggregates", Opt(IndexMap(Ref("Aggregate")))),
        Fld("aggregates_limit", Opt(TU64)),
        Fld("fields", Opt(IndexMap(Ref("Field")))),
        Fld("limit", Opt(TU64)),
        Fld("offset", Opt(TU64)),
        Fld("order_by", Opt(Ref("OrderBy"))),
        Fld("where", Opt(Ref("Expression"))) >>)

Query ==
    Struct(TRUE, <<
        Fld("aggregates", Opt(IndexMap(Ref("Aggregate")))),
        Fld("aggregates_limit", Opt(TU64)),
        Fld("fields", Opt(IndexMap(Ref("Field")))),
        Fld("limit", Opt(TU64)),
        Fld("offset", Opt(TU64)),
        Fld("order_by", Opt(Ref("OrderBy"))),
        Fld("where", Opt(Ref("Expression"))) >>)

Aggregate ==
    Tagged(FALSE, <<
        Var(<<"C", "o", "l", "u", "m", "n", "C", "o", "u", "n", "t">>, << Fld("column", ColumnName), Fld("distinct", TBool) >>),
        Var(<<"S", "i", "n", "g", "l", "e", "C", "o", "l", "u", "m", "n">>, << Fld("column", ColumnName),
                               Fld("function", AggregateFunction),
                               Fld("result_type", ScalarType) >>),
        Var(<<"S", "t", "a", "r", "C", "o", "u", "n", "t">>, << >>) >>)

Field ==
    Tagged(TRUE, <<
        Var(<<"C", "o", "l", "u", "m", "n">>, << Fld("column", ColumnName), Fld("column_type", ScalarType) >>),
        Var(<<"O", "b", "j", "e", "c", "t">>, << Fld("column", ColumnName), Fld("query", Ref("Query")) >>),
        Var(<<"A", "r", "r", "a", "y">>, << Fld("field", Box(Ref("Field"))),
                        Fld("limit", Opt(TI64)),
                        Fld("offset", Opt(TI64)),
                        Fld("where", Opt(Ref("OrderBy"))) >>),
        Var(<<"R", "e", "l", "a", "t", "i", "o", "n", "s", "h", "i", "p">>, << Fld("query", Ref("Query")),
                               Fld("relationship", TString) >>) >>)

OrderBy ==
    Struct(FALSE, <<
        Fld("elements", Vec(Ref("OrderByElement"))),
        Fld("relations", IndexMap(Ref("OrderByRelation"))) >>)

OrderByElement ==
    Struct(FALSE, <<
        Fld("order_direction", Ref("OrderDirection")),
        Fld("target", Ref("OrderByTarget")),
        Fld("target_path", Vec(TString)) >>)

OrderByRelation ==
    Struct(FALSE, <<
        Fld("subrelations", IndexMap(Ref("OrderByRelation"))),
        FldSkip("where", Opt(Ref("Expression"))) >>)

OrderDirection == UnitEnum("snake_case", << <<"A", "s", "c">>, <<"D", "e", "s", "c">> >>)

OrderByTarget ==
    Tagged(FALSE, <<
        Var(<<"C", "o", "l", "u", "m", "n">>, << Fld("column", Ref("ColumnSelector")) >>),
        Var(<<"S", "i", "n", "g", "l", "e", "C", "o", "l", "u", "m", "n", "A", "g", "g", "r", "e", "g", "a", "t", "e">>, << Fld("column", ColumnName),
                                        Fld("function", AggregateFunction),
                                        Fld("result_type", ScalarType) >>),
        Var(<<"S", "t", "a", "r", "C", "o", "u", "n", "t", "A", "g", "g", "r", "e", "g", "a", "t", "e">>, << >>) >>)

\* ColumnSelector that is a simple name only.
ColumnSelectorNameOnly == Untagged(<< Newtype(<<"N", "a", "m", "e">>, TString) >>)

ColumnSelector ==
    Untagged(<<
        Newtype(<<"C", "o", "m", "p", "o", "u", "n", "d">>, Vec(TString)),
        Newtype(<<"N", "a", "m", "e">>, TString) >>)

Expression ==
    Tagged(FALSE, <<
        Var(<<"A", "n", "d">>, << Fld("expressions", Vec(Ref("Expression"))) >>),
        Var(<<"O", "r">>, << Fld("expressions", Vec(Ref("Expression"))) >>),
        Var(<<"N", "o", "t">>, << Fld("expression", Box(Ref("Expression"))) >>),
        VarAs(<<"A", "p", "p", "l", "y", "U", "n", "a", "r", "y", "C", "o", "m", "p", "a", "r", "i", "s", "o", "n">>, "unary_op",
              << Fld("column", Ref("ComparisonColumn")),
                 Fld("operator", Ref("UnaryComparisonOperator")) >>),
        VarAs(<<"A", "p", "p", "l", "y", "B", "i", "n", "a", "r", "y", "C", "o", "m", "p", "a", "r", "i", "s", "o", "n">>, "binary_op",
              << Fld("column", Ref("ComparisonColumn")),
                 Fld("operator", Ref("BinaryComparisonOperator")),
                 Fld("value", Ref("ComparisonValue")) >>),
        VarAs(<<"A", "p", "p", "l", "y", "B", "i", "n", "a", "r", "y", "A", "r", "r", "a", "y", "C", "o", "m", "p", "a", "r", "i", "s", "o", "n">>, "binary_arr_op",
              << Fld("column", Ref("ComparisonColumn")),
                 Fld("operator", Ref("BinaryArrayComparisonOperator")),
                 Fld("value_type", TString),
                 Fld("values", Vec(TValue)) >>),
        Var(<<"E", "x", "i", "s", "t", "s">>, << Fld("in_table", Ref("ExistsInTable")),
                         Fld("where", Box(Ref("Expression"))) >>) >>)

ComparisonColumn ==
    Struct(TRUE, <<
        Fld("column_type", ScalarType),
        Fld("name", Ref("ColumnSelector")),
        Fld("path", Opt(Vec(TString))) >>)

UnaryComparisonOperator == EnumStr("snake_case", << <<"I", "s", "N", "u", "l", "l">> >>)

\* BinaryComparisonOperator without #[serde(rename_all = "snake_case")].
BinaryComparisonOperatorAsDeclared ==
    EnumStr("", << <<"L", "e", "s", "s", "T", "h", "a", "n">>, <<"L", "e", "s", "s", "T", "h", "a", "n", "O", "r", "E", "q", "u", "a", "l">>, <<"E", "q", "u", "a", "l">>,
                   <<"G", "r", "e", "a", "t", "e", "r", "T", "h", "a", "n">>, <<"G", "r", "e", "a", "t", "e", "r", "T", "h", "a", "n", "O", "r", "E", "q", "u", "a", "l">> >>)

BinaryComparisonOperator ==
    EnumStr("snake_case", << <<"L", "e", "s", "s", "T", "h", "a", "n">>, <<"L", "e", "s", "s", "T", "h", "a", "n", "O", "r", "E", "q", "u", "a", "l">>, <<"E", "q", "u", "a", "l">>,
                             <<"G", "r", "e", "a", "t", "e", "r", "T", "h", "a", "n">>, <<"G", "r", "e", "a", "t", "e", "r", "T", "h", "a", "n", "O", "r", "E", "q", "u", "a", "l">> >>)

BinaryArrayComparisonOperator == EnumStr("snake_case", << <<"I", "n">> >>)

ComparisonValue ==
    Tagged(FALSE, <<
        Var(<<"C", "o", "l", "u", "m", "n">>, << Fld("column", Ref("ComparisonColumn")) >>),
        Var(<<"S", "c", "a", "l", "a", "r">>, << Fld("value", TValue), Fld("value_type", ScalarType) >>) >>)

ExistsInTable ==
    Tagged(FALSE, <<
        Var(<<"R", "e", "l", "a", "t", "e", "d">>, << Fld("relationship", TString) >>),
        Var(<<"U", "n", "r", "e", "l", "a", "t", "e", "d">>, << Fld("table", NameVec) >>) >>)

QueryResponse ==
    Untagged(<<
        Var(<<"F", "o", "r", "E", "a", "c", "h">>, << Fld("rows", Vec(Ref("ForEachRow"))) >>),
        Newtype(<<"S", "i", "n", "g", "l", "e">>, Ref("ResponseRow")) >>)

ForEachRow == Struct(FALSE, << Fld("query", Ref("ResponseRow")) >>)

ResponseRow ==
    Struct(TRUE, <<
        Fld("aggregates", Opt(IndexMap(TValue))),
        Fld("rows", Opt(Vec(IndexMap(Ref("ResponseFieldValue"))))) >>)

ResponseFieldValue ==
    Untagged(<<
        Newtype(<<"R", "e", "l", "a", "t", "i", "o", "n", "s", "h", "i", "p">>, Box(Ref("ResponseRow"))),
        Newtype(<<"C", "o", "l", "u", "m", "n">>, TValue) >>)

(* ---------------------------- mutation.rs ----------------------------- *)

MutationRequest ==
    Struct(FALSE, <<
        Fld("insert_schema", Vec(Ref("TableInsertSchema"))),
        Fld("operations", Vec(Ref("MutationOperation"))),
        Fld("relationships", Vec(Ref("TableRelationships"))) >>)

TableInsertSchema ==
    Struct(TRUE, <<
        Fld("fields", IndexMap(Ref("InsertFieldSchema"))),
        Fld("primary_key", Opt(Vec(TString))),
        Fld("table", TableName) >>)

InsertFieldSchema ==
    Tagged(TRUE, <<
        Var(<<"A", "r", "r", "a", "y", "R", "e", "l", "a", "t", "i", "o", "n">>, << Fld("relationship", TString) >>),
        Var(<<"C", "o", "l", "u", "m", "n">>, << Fld("column", TString),
                         Fld("column_type", Ref("ColumnType")),
                         Fld("nullable", TBool),
                         Fld("value_generated", Opt(Ref("ColumnValueGenerationStrategy"))) >>),
        Var(<<"O", "b", "j", "e", "c", "t", "R", "e", "l", "a", "t", "i", "o", "n">>, << Fld("insertion_order", Ref("ObjectRelationInsertionOrder")),
                                 Fld("relationship", TString) >>) >>)

ObjectRelationInsertionOrder ==
    UnitEnum("snake_case", << <<"B", "e", "f", "o", "r", "e", "P", "a", "r", "e", "n", "t">>, <<"A", "f", "t", "e", "r", "P", "a", "r", "e", "n", "t">> >>)

MutationOperation ==
    Tagged(TRUE, <<
        Var(<<"D", "e", "l", "e", "t", "e">>, << Fld("returning_fields", Opt(IndexMap(Ref("Field")))),
                         Fld("table", TableName),
                         Fld("where", Opt(Ref("Expression"))) >>),
        Var(<<"I", "n", "s", "e", "r", "t">>, << Fld("post_insert_check", Opt(Ref("Expression"))),
                         Fld("returning_fields", Opt(IndexMap(Ref("Field")))),
                         Fld("rows", Vec(IndexMap(TValue))),
                         Fld("table", TableName) >>),
        Var(<<"U", "p", "d", "a", "t", "e">>, << Fld("post_update_check", Opt(Ref("Expression"))),
                         Fld("returning_fields", Opt(IndexMap(Ref("Field")))),
                         Fld("table", TableName),
                         Fld("updates", Vec(Ref("RowUpdate"))),
                         Fld("where", Opt(Ref("Expression"))) >>) >>)

RowUpdate ==
    Tagged(FALSE, <<
        Var(<<"C", "u", "s", "t", "o", "m", "O", "p", "e", "r", "a", "t", "o", "r">>, << Fld("column", ColumnName),
                                 Fld("operator_name", UpdateOperator),
                                 Fld("value", TValue),
                                 Fld("value_type", ScalarType) >>),
        Var(<<"S", "e", "t">>, << Fld("column", TString),
                      Fld("value", IndexMap(TValue)),
                      Fld("value_type", TString) >>) >>)

MutationResponse ==
    Struct(FALSE, << Fld("operation_results", Vec(Ref("MutationOperationResults"))) >>)

MutationOperationResults ==
    Struct(TRUE, <<
        Fld("affected_rows", TU64),
        Fld("returning", Opt(Vec(IndexMap(Ref("ResponseFieldValue"))))) >>)

(* ----------------------------- schema.rs ------------------------------ *)

ColumnType ==
    Untagged(<<
        Newtype(<<"C", "o", "l", "u", "m", "n", "T", "y", "p", "e", "N", "o", "n", "S", "c", "a", "l", "a", "r">>, Ref("ColumnTypeNonScalar")),
        Newtype(<<"S", "c", "a", "l", "a", "r">>, ScalarType) >>)

ColumnTypeNonScalar ==
    Tagged(FALSE, <<
        Var(<<"O", "b", "j", "e", "c", "t">>, << Fld("name", TString) >>),
        Var(<<"A", "r", "r", "a", "y">>, << Fld("element_type", Box(Ref("ColumnType"))),
                        Fld("nullable", TBool) >>) >>)

ColumnValueGenerationStrategy ==
    Tagged(FALSE, <<
        Var(<<"A", "u", "t", "o", "I", "n", "c", "r", "e", "m", "e", "n", "t">>, << >>),
        Var(<<"D", "e", "f", "a", "u", "l", "t", "V", "a", "l", "u", "e">>, << >>),
        Var(<<"U", "n", "i", "q", "u", "e", "I", "d", "e", "n", "t", "i", "f", "i", "e", "r">>, << >>) >>)

(* ------------------------------ error.rs ------------------------------ *)

ErrorResponse ==
    Struct(TRUE, <<
        Fld("details", Opt(IndexMap(TValue))),
        Fld("message", TString),
        Fld("type", Opt(Ref("ErrorResponseType"))) >>)

\* ErrorResponseType renamed as the other enums are.
ErrorResponseTypeSnakeCase ==
    UnitEnum("snake_case", << <<"U", "n", "c", "a", "u", "g", "h", "t", "E", "r", "r", "o", "r">>, <<"M", "u", "t", "a", "t", "i", "o", "n", "C", "o", "n", "s", "t", "r", "a", "i", "n", "t", "V", "i", "o", "l", "a", "t", "i", "o", "n">>,
                              <<"M", "u", "t", "a", "t", "i", "o", "n", "P", "e", "r", "m", "i", "s", "s", "i", "o", "n", "C", "h", "e", "c", "k", "F", "a", "i", "l", "u", "r", "e">> >>)

ErrorResponseType ==
    UnitEnum("kebab-case", << <<"U", "n", "c", "a", "u", "g", "h", "t", "E", "r", "r", "o", "r">>, <<"M", "u", "t", "a", "t", "i", "o", "n", "C", "o", "n", "s", "t", "r", "a", "i", "n", "t", "V", "i", "o", "l", "a", "t", "i", "o", "n">>,
                              <<"M", "u", "t", "a", "t", "i", "o", "n", "P", "e", "r", "m", "i", "s", "s", "i", "o", "n", "C", "h", "e", "c", "k", "F", "a", "i", "l", "u", "r", "e">> >>)

(* ------------------------- the declared types ------------------------- *)

TypeNames ==
    {"QueryRequest",
     "InterpolatedQuery",
     "InterpolatedItem",
     "Target",
     "FunctionRequestArgument",
     "ArgumentValue",
     "ScalarValue",
     "TableRelationships",
     "Relationship",
     "RelationshipType",
     "Query",
     "Aggregate",
     "Field",
     "OrderBy",
     "OrderByElement",
     "OrderByRelation",
     "OrderDirection",
     "OrderByTarget",
     "ColumnSelector",
     "Expression",
     "ComparisonColumn",
     "UnaryComparisonOperator",
     "BinaryComparisonOperator",
     "BinaryArrayComparisonOperator",
     "ComparisonValue",
     "ExistsInTable",
     "QueryResponse",
     "ForEachRow",
     "ResponseRow",
     "ResponseFieldValue",
     "MutationRequest",
     "TableInsertSchema",
     "InsertFieldSchema",
     "ObjectRelationInsertionOrder",
     "MutationOperation",
     "RowUpdate",
     "MutationResponse",
     "MutationOperationResults",
     "ColumnType",
     "ColumnTypeNonScalar",
     "ColumnValueGenerationStrategy",
     "ErrorResponse",
     "ErrorResponseType"}

TypeDef(name) ==
    CASE name = "QueryRequest" -> QueryRequest
      [] name = "InterpolatedQuery" -> InterpolatedQuery
      [] name = "InterpolatedItem" -> InterpolatedItem
      [] name = "Target" -> Target
      [] name = "FunctionRequestArgument" -> FunctionRequestArgument
      [] name = "ArgumentValue" -> ArgumentValue
      [] name = "ScalarValue" -> ScalarValue
      [] name = "TableRelationships" -> TableRelationships
      [] name = "Relationship" -> Relationship
      [] name = "RelationshipType" -> RelationshipType
      [] name = "Query" -> Query
      [] name = "Aggregate" -> Aggregate
      [] name = "Field" -> Field
      [] name = "OrderBy" -> OrderBy
      [] name = "OrderByElement" -> OrderByElement
      [] name = "OrderByRelation" -> OrderByRelation
      [] name = "OrderDirection" -> OrderDirection
      [] name = "OrderByTarget" -> OrderByTarget
      [] name = "ColumnSelector" -> ColumnSelector
      [] name = "Expression" -> Expression
      [] name = "ComparisonColumn" -> ComparisonColumn
      [] name = "UnaryComparisonOperator" -> UnaryComparisonOperator
      [] name = "BinaryComparisonOperator" -> BinaryComparisonOperator
      [] name = "BinaryArrayComparisonOperator" -> BinaryArrayComparisonOperator
      [] name = "ComparisonValue" -> ComparisonValue
      [] name = "ExistsInTable" -> ExistsInTable
      [] name = "QueryResponse" -> QueryResponse
      [] name = "ForEachRow" -> ForEachRow
      [] name = "ResponseRow" -> ResponseRow
      [] name = "ResponseFieldValue" -> ResponseFieldValue
      [] name = "MutationRequest" -> MutationRequest
      [] name = "TableInsertSchema" -> TableInsertSchema
      [] name = "InsertFieldSchema" -> InsertFieldSchema
      [] name = "ObjectRelationInsertionOrder" -> ObjectRelationInsertionOrder
      [] name = "MutationOperation" -> MutationOperation
      [] name = "RowUpdate" -> RowUpdate
      [] name = "MutationResponse" -> MutationResponse
      [] name = "MutationOperationResults" -> MutationOperationResults
      [] name = "ColumnType" -> ColumnType
      [] name = "ColumnTypeNonScalar" -> ColumnTypeNonScalar
      [] name = "ColumnValueGenerationStrategy" -> ColumnValueGenerationStrategy
      [] name = "ErrorResponse" -> ErrorResponse
      [] name = "ErrorResponseType" -> ErrorResponseType

(* ---------------------------- Serialize ------------------------------- *)

\* The declaration of the variant that the enum value v is of.
VariantOf(t, v) ==
    t.variants[CHOOSE i \in DOMAIN t.variants : Cat(t.variants[i].name) = VariantName(v)]

\* A variant's name on the wire: its own rename, else the enum's rename_all.
WireName(t, vd) == IF vd.rename # "" THEN vd.rename ELSE Rename(t.rename_all, vd.name)

\* skip_serializing_none (on the container) and skip_serializing_if =
\* "Option::is_none" (on the field) both leave an Option field that is None
\* out of the object.
Skipped(f, skip_none, x) ==
    /\ f.ty.k = "option"
    /\ skip_none \/ f.skip_if_none
    /\ x = None

WithTag(members, tag, name) ==
    [key \in DOMAIN members \cup {tag} |-> IF key = tag THEN JStr(name) ELSE members[key]]

RECURSIVE Ser(_, _)
RECURSIVE SerFields(_, _, _)
\* serde_json::to_value of the Rust value v of type t.
Ser(t, v) ==
    CASE t.k = "string" -> JStr(v)
      [] t.k = "bool" -> [b |-> v]
      [] t.k \in {"u64", "i64"} -> JNum(v)
      [] t.k = "value" -> v
      [] t.k = "option" -> IF v = None THEN JNull ELSE Ser(t.of, v.some)
      [] t.k = "vec" -> JArr([i \in 1..Len(v) |-> Ser(t.of, v[i])])
      [] t.k = "map" -> JObj([key \in DOMAIN v |-> Ser(t.of, v[key])])
      [] t.k = "ref" -> Ser(TypeDef(t.name), v)
      [] t.k = "struct" -> JObj(SerFields(t.fields, t.skip_none, v))
      [] t.k = "tagged" ->
            LET vd == VariantOf(t, v)
            IN  JObj(WithTag(SerFields(vd.fields, t.skip_none, Payload(v)),
                             t.tag, WireName(t, vd)))
      [] t.k = "untagged" ->
            LET vd == VariantOf(t, v)
            IN  IF "newtype" \in DOMAIN vd
                THEN Ser(vd.newtype, Payload(v))
                ELSE JObj(SerFields(vd.fields, t.skip_none, Payload(v)))
      [] t.k = "unit_enum" -> JStr(WireName(t, VariantOf(t, v)))
      [] t.k = "enum_str" ->
            IF VariantName(v) = t.other
            THEN JStr(Payload(v))
            ELSE JStr(WireName(t, VariantOf(t, v)))

\* The members of the object a struct, or a variant with named fields, is
\* serialized as.
SerFields(fields, skip_none, v) ==
    LET kept == {i \in DOMAIN fields : ~Skipped(fields[i], skip_none, v[fields[i].name])}
    IN  [key \in {fields[i].wire : i \in kept} |->
            LET i == CHOOSE i \in kept : fields[i].wire = key
            IN  Ser(fields[i].ty, v[fields[i].name])]

(* --------------------------- Deserialize ------------------------------ *)

AllOk(rs) == \A i \in DOMAIN rs : IsOk(rs[i])

\* The record of the fields, from their decoded values in declaration order.
FieldsRecord(fields, rs) ==
    [name \in {fields[i].name : i \in DOMAIN fields} |->
        rs[CHOOSE i \in DOMAIN fields : fields[i].name = name].ok]

RECURSIVE De(_, _)
RECURSIVE DeFieldsMap(_, _)
RECURSIVE DeFieldsSeq(_, _)
RECURSIVE DeUntagged(_, _, _)

\* A struct, or a variant with named fields, read from the members of an
\* object: members no field names are ignored, an absent Option is None,
\* any other absent field is an error.
DeFieldsMap(fields, members) ==
    LET rs == [i \in DOMAIN fields |->
                  IF fields[i].wire \in DOMAIN members
                  THEN De(fields[i].ty, members[fields[i].wire])
                  ELSE IF fields[i].ty.k = "option" THEN Ok(None)
                  ELSE Err("missing field")]
    IN  IF AllOk(rs) THEN Ok(FieldsRecord(fields, rs)) ELSE Err("invalid field")

\* The same read from an array: the fields by position, every one present
\* and no element left over.
DeFieldsSeq(fields, elems) ==
    IF Len(elems) # Len(fields) THEN Err("invalid length")
    ELSE LET rs == [i \in DOMAIN fields |-> De(fields[i].ty, elems[i])]
         IN  IF AllOk(rs) THEN Ok(FieldsRecord(fields, rs)) ELSE Err("invalid field")

DeFields(fields, j) ==
    IF IsObj(j) THEN DeFieldsMap(fields, j.o)
    ELSE IF IsArr(j) THEN DeFieldsSeq(fields, j.a)
    ELSE Err("invalid type")

\* #[serde(tag = "type")]: the variant is the one whose wire name is the
\* tag; the other members are its fields.
DeTagged(t, j) ==
    LET tagOf == IF IsObj(j) /\ t.tag \in DOMAIN j.o THEN Some(j.o[t.tag])
                 ELSE IF IsArr(j) /\ Len(j.a) >= 1 THEN Some(j.a[1])
                 ELSE None
        hits == IF tagOf # None /\ IsStr(tagOf.some)
                THEN {i \in DOMAIN t.variants : WireName(t, t.variants[i]) = tagOf.some.s}
                ELSE {}
    IN  IF ~IsObj(j) /\ ~IsArr(j) THEN Err("invalid type")
        ELSE IF tagOf = None THEN Err("missing tag")
        ELSE IF hits = {} THEN Err("unknown variant")
        ELSE LET vd == t.variants[CHOOSE i \in hits : TRUE]
                 r == IF IsObj(j)
                      THEN DeFieldsMap(vd.fields,
                                       [key \in DOMAIN j.o \ {t.tag} |-> j.o[key]])
                      ELSE DeFieldsSeq(vd.fields, Tail(j.a))
             IN  IF IsOk(r) THEN Ok(Variant(Cat(vd.name), r.ok)) ELSE r

\* #[serde(untagged)]: the variants are tried in declaration order from
\* variant i on, and the first that reads the value is taken.
DeUntagged(t, i, j) ==
    IF i > Len(t.variants) THEN Err("data did not match any variant")
    ELSE LET vd == t.variants[i]
             r == IF "newtype" \in DOMAIN vd THEN De(vd.newtype, j)
                  ELSE DeFields(vd.fields, j)
         IN  IF IsOk(r) THEN Ok(Variant(Cat(vd.name), r.ok))
             ELSE DeUntagged(t, i + 1, j)

\* An enum of unit variants: the variant's wire name as a string, or as the
\* one member, holding null, of an object.
DeUnit(t, j) ==
    LET name == IF IsStr(j) THEN Some(j.s)
                ELSE IF IsObj(j) /\ Cardinality(DOMAIN j.o) = 1
                        /\ IsNull(j.o[CHOOSE key \in DOMAIN j.o : TRUE])
                THEN Some(CHOOSE key \in DOMAIN j.o : TRUE)
                ELSE None
        hits == IF name = None THEN {}
                ELSE {i \in DOMAIN t.variants : WireName(t, t.variants[i]) = name.some}
    IN  IF hits = {} THEN Err("unknown variant")
        ELSE Ok(Variant(Cat(t.variants[CHOOSE i \in hits : TRUE].name), TRUE))

\* Deserialize_enum_str: a string that names no variant is Other(string).
DeEnumStr(t, j) ==
    IF ~IsStr(j) THEN Err("invalid type")
    ELSE LET hits == {i \in DOMAIN t.variants : WireName(t, t.variants[i]) = j.s}
         IN  IF hits = {} THEN Ok(Variant(t.other, j.s))
             ELSE Ok(Variant(Cat(t.variants[CHOOSE i \in hits : TRUE].name), TRUE))

\* serde_json::from_value of the JSON value j at type t.
De(t, j) ==
    CASE t.k = "string" -> IF IsStr(j) THEN Ok(j.s) ELSE Err("invalid type")
      [] t.k = "bool" -> IF "b" \in DOMAIN j THEN Ok(j.b) ELSE Err("invalid type")
      [] t.k = "u64" -> IF "n" \in DOMAIN j /\ j.n >= 0 THEN Ok(j.n) ELSE Err("invalid type")
      [] t.k = "i64" -> IF "n" \in DOMAIN j THEN Ok(j.n) ELSE Err("invalid type")
      [] t.k = "value" -> Ok(j)
      [] t.k = "option" ->
            IF IsNull(j) THEN Ok(None)
            ELSE LET r == De(t.of, j) IN IF IsOk(r) THEN Ok(Some(r.ok)) ELSE r
      [] t.k = "vec" ->
            IF ~IsArr(j) THEN Err("invalid type")
            ELSE LET rs == [i \in 1..Len(j.a) |-> De(t.of, j.a[i])]
                 IN  IF AllOk(rs) THEN Ok([i \in DOMAIN rs |-> rs[i].ok])
                     ELSE Err("invalid element")
      [] t.k = "map" ->
            IF ~IsObj(j) THEN Err("invalid type")
            ELSE LET rs == [key \in DOMAIN j.o |-> De(t.of, j.o[key])]
                 IN  IF AllOk(rs) THEN Ok([key \in DOMAIN rs |-> rs[key].ok])
                     ELSE Err("invalid member")
      [] t.k = "ref" -> De(TypeDef(t.name), j)
      [] t.k = "struct" -> DeFields(t.fields, j)
      [] t.k = "tagged" -> DeTagged(t, j)
      [] t.k = "untagged" -> DeUntagged(t, 1, j)
      [] t.k = "unit_enum" -> DeUnit(t, j)
      [] t.k = "enum_str" -> DeEnumStr(t, j)

(* ------------------------- the values built --------------------------- *)

Strings == {"a", "b"}

\* Operator names held by Other(..): some that no variant has, some that a
\* variant of one of the operator enums has.
OperatorNames == {"like", "", "is_null", "equal", "in"}

MapKeys == {"query", "c"}

Obj1(key, x) == JObj([m \in {key} |-> x])

\* The serde_json::Value samples.
JsonValues ==
    {JNull, [b |-> TRUE], JNum(1), JStr("x"), JArr(<< >>), JArr(<<JNull, JNull>>),
     JObj(EmptyMap), Obj1("rows", JArr(<< >>)), Obj1("c", JNum(1))}

RECURSIVE Base(_)
RECURSIVE BaseFields(_)
\* The plainest value of a type.
Base(t) ==
    CASE t.k = "string" -> "a"
      [] t.k = "bool" -> FALSE
      [] t.k \in {"u64", "i64"} -> 0
      [] t.k = "value" -> JNull
      [] t.k = "option" -> None
      [] t.k = "vec" -> IF t.nonempty THEN <<Base(t.of)>> ELSE << >>
      [] t.k = "map" -> EmptyMap
      [] t.k = "ref" -> Base(TypeDef(t.name))
      [] t.k = "struct" -> BaseFields(t.fields)
      [] t.k \in {"tagged", "untagged"} ->
            LET vd == t.variants[1]
            IN  Variant(Cat(vd.name),
                        IF "newtype" \in DOMAIN vd THEN Base(vd.newtype)
                        ELSE BaseFields(vd.fields))
      [] t.k \in {"unit_enum", "enum_str"} -> Variant(Cat(t.variants[1].name), TRUE)

BaseFields(fields) ==
    [name \in {fields[i].name : i \in DOMAIN fields} |->
        Base(fields[CHOOSE i \in DOMAIN fields : fields[i].name = name].ty)]

\* A value of V other than the plain one, when V has one.
Other(V, plain) == IF V \subseteq {plain} THEN plain ELSE CHOOSE x \in V : x # plain

\* The sequences built: every one-element sequence, and for each longer
\* length up to MaxLen the plain sequence with its first, or its last,
\* element replaced by another value.
Seqs(V, plain, nonempty) ==
    (IF nonempty THEN {} ELSE {<< >>})
    \cup {<<x>> : x \in V}
    \cup UNION {{[i \in 1..n |-> IF i = p THEN Other(V, plain) ELSE plain] : p \in {1, n}}
                : n \in 2..MaxLen}

\* The maps built: every map of the one key "query", and maps of the other
\* keys holding a plain and another value.
Maps(V, plain) ==
    {EmptyMap}
    \cup {[key \in {"query"} |-> x] : x \in V}
    \cup {[key \in D |-> IF key = "c" THEN Other(V, plain) ELSE plain] :
             D \in {{"c"}, MapKeys}}

RECURSIVE Values(_, _)
RECURSIVE FieldValues(_, _)
\* The values of type t that are built, entering at most d named types.
Values(t, d) ==
    CASE t.k = "string" -> Strings
      [] t.k = "bool" -> BOOLEAN
      [] t.k = "u64" -> {0, 2}
      [] t.k = "i64" -> {-1, 0}
      [] t.k = "value" -> JsonValues
      [] t.k = "option" -> {None} \cup {Some(x) : x \in Values(t.of, d)}
      [] t.k = "vec" -> Seqs(Values(t.of, d), Base(t.of), t.nonempty)
      [] t.k = "map" -> Maps(Values(t.of, d), Base(t.of))
      [] t.k = "ref" -> IF d = 0 THEN {Base(t)} ELSE Values(TypeDef(t.name), d - 1)
      [] t.k = "struct" -> FieldValues(t.fields, d)
      [] t.k \in {"tagged", "untagged"} ->
            UNION {LET vd == t.variants[i]
                   IN  {Variant(Cat(vd.name), x) :
                           x \in IF "newtype" \in DOMAIN vd THEN Values(vd.newtype, d)
                                 ELSE FieldValues(vd.fields, d)}
                   : i \in DOMAIN t.variants}
      [] t.k = "unit_enum" -> {Variant(Cat(t.variants[i].name), TRUE) : i \in DOMAIN t.variants}
      [] t.k = "enum_str" ->
            {Variant(Cat(t.variants[i].name), TRUE) : i \in DOMAIN t.variants}
            \cup {Variant(t.other, name) : name \in OperatorNames}

\* The records of the fields that are built: the plain record with one
\* field varied, and the record of every field other than plain with one
\* field varied.
FieldValues(fields, d) ==
    LET plain == BaseFields(fields)
        vs(i) == Values(fields[i].ty, d)
        other(i) == Other(vs(i), plain[fields[i].name])
        rich == [name \in DOMAIN plain |->
                    other(CHOOSE i \in DOMAIN fields : fields[i].name = name)]
    IN  {plain}
        \cup UNION {{[plain EXCEPT ![fields[i].name] = x] : x \in vs(i)} : i \in DOMAIN fields}
        \cup UNION {{[rich EXCEPT ![fields[i].name] = x] : x \in vs(i)} : i \in DOMAIN fields}

\* The values of the declared type named name.
ValuesOf(name) == Values(Ref(name), MaxDepth)

(* ---------------------------- the machine ----------------------------- *)

\* A JSON object from its members, each a pair <<name, value>>.
Obj(ms) ==
    JObj([key \in {ms[i][1] : i \in DOMAIN ms} |->
             ms[CHOOSE i \in DOMAIN ms : ms[i][1] = key][2]])

Strs(xs) == JArr([i \in DOMAIN xs |-> JStr(xs[i])])

\* Strings a peer may send where a name is read.
WireStrings ==
    {"", "a", "x", "like", "other", "Other",
     "is_null", "IsNull", "isnull", "less_than", "less_than_or_equal", "equal",
     "greater_than", "greater_than_or_equal", "GreaterThan", "in", "In",
     "uncaught-error", "mutation-constraint-violation",
     "mutation-permission-check-failure", "uncaught_error", "UncaughtError",
     "asc", "object", "table"}

ErrorPayloads ==
    {Obj(<< <<"message", JStr("m")>> >>),
     Obj(<< <<"type", JStr("uncaught-error")>> >>),
     Obj(<< <<"message", JStr("m")>>, <<"type", JNull>> >>),
     Obj(<< <<"message", JStr("m")>>, <<"details", JObj(EmptyMap)>>,
            <<"type", JStr("UncaughtError")>> >>)}
    \cup {Obj(<< <<"message", JStr("m")>>, <<"type", JStr(t)>> >>) :
             t \in {"uncaught-error", "mutation-constraint-violation",
                    "mutation-permission-check-failure", "uncaught_error",
                    "mutation_constraint_violation", "other", ""}}

NamePayloads ==
    {Obj(<< <<"type", JStr("table")>>, <<"name", Strs(<<"a">>)>> >>),
     Obj(<< <<"type", JStr("table")>>, <<"name", Strs(<< >>)>> >>),
     Obj(<< <<"type", JStr("Table")>>, <<"name", Strs(<<"a">>)>> >>),
     Obj(<< <<"type", JStr("table")>> >>),
     Obj(<< <<"name", Strs(<<"a">>)>> >>),
     Obj(<< <<"type", JStr("interpolated")>>, <<"id", JStr("a")>> >>),
     Obj(<< <<"type", JStr("function")>>, <<"name", Strs(<< >>)>>,
            <<"arguments", JArr(<< >>)>> >>),
     Obj(<< <<"relationships", JObj(EmptyMap)>>, <<"source_table", Strs(<< >>)>> >>),
     Obj(<< <<"relationships", JObj(EmptyMap)>>, <<"source_table", Strs(<<"a">>)>> >>),
     Obj(<< <<"type", JStr("unrelated")>>, <<"table", Strs(<< >>)>> >>),
     Obj(<< <<"type", JStr("related")>>, <<"relationship", JStr("a")>> >>),
     Obj(<< <<"type", JStr("delete")>>, <<"table", Strs(<< >>)>> >>),
     Obj(<< <<"type", JStr("delete")>>, <<"table", Strs(<<"a">>)>>, <<"where", JNull>> >>),
     Obj(<< <<"type", JStr("insert")>>, <<"table", Strs(<< >>)>>, <<"rows", JArr(<< >>)>> >>),
     Obj(<< <<"fields", JObj(EmptyMap)>>, <<"table", Strs(<< >>)>> >>),
     JArr(<<JStr("table"), Strs(<<"a">>)>>)}

ExpressionPayloads ==
    LET column == Obj(<< <<"column_type", JStr("a")>>, <<"name", JStr("a")>> >>)
        unary(tag) == Obj(<< <<"type", JStr(tag)>>, <<"column", column>>,
                             <<"operator", JStr("is_null")>> >>)
    IN  {unary("unary_op"), unary("apply_unary_comparison"), unary("ApplyUnaryComparison"),
         Obj(<< <<"type", JStr("and")>>, <<"expressions", JArr(<< >>)>> >>),
         Obj(<< <<"type", JStr("And")>>, <<"expressions", JArr(<< >>)>> >>),
         Obj(<< <<"type", JStr("not")>>,
                <<"expression", Obj(<< <<"type", JStr("or")>>,
                                       <<"expressions", JArr(<< >>)>> >>)>> >>),
         Obj(<< <<"type", JStr("star_count")>> >>),
         Obj(<< <<"type", JStr("StarCount")>> >>),
         JArr(<<JStr("star_count")>>)}

ResponsePayloads ==
    {Obj(<< <<"rows", JNull>> >>),
     Obj(<< <<"rows", JArr(<<Obj(<< <<"query", JObj(EmptyMap)>> >>)>>)>> >>),
     Obj(<< <<"rows", JArr(<<Obj(<< <<"query", JNum(1)>> >>)>>)>> >>),
     Obj(<< <<"aggregates", JObj(EmptyMap)>> >>),
     Obj(<< <<"aggregates", Obj1("c", JNum(1))>>, <<"rows", JArr(<< >>)>> >>),
     Obj(<< <<"query", JObj(EmptyMap)>> >>),
     JArr(<<JArr(<< >>)>>),
     JArr(<<JNull, JArr(<< >>)>>)}

\* JSON received from a peer: what a connector, correct or not, may send.
Payloads ==
    JsonValues
    \cup {[b |-> FALSE], JNum(0), JNum(-1)}
    \cup {JStr(x) : x \in WireStrings}
    \cup {Strs(<<"a">>), Strs(<<"a", "b">>), JArr(<<JNum(1)>>), JArr(<<JStr("a"), JNum(1)>>)}
    \cup ErrorPayloads \cup NamePayloads \cup ExpressionPayloads \cup ResponsePayloads

Nothing == [nothing |-> TRUE]

Init ==
    /\ ty \in TypeNames
    /\ val = Nothing
    /\ wire = Nothing
    /\ res = Nothing
    /\ echo = Nothing
    /\ pc = "idle"

\* The program builds a value of the type.
Construct ==
    /\ pc = "idle"
    /\ \E v \in ValuesOf(ty) : val' = Some(v)
    /\ pc' = "constructed"
    /\ UNCHANGED <<ty, wire, res, echo>>

\* serde_json::to_value of the value built.
Serialize ==
    /\ pc = "constructed"
    /\ wire' = Ser(Ref(ty), val.some)
    /\ pc' = "serialized"
    /\ UNCHANGED <<ty, val, res, echo>>

\* A JSON value arrives from a peer.
Receive ==
    /\ pc = "idle"
    /\ \E j \in Payloads : wire' = j
    /\ pc' = "received"
    /\ UNCHANGED <<ty, val, res, echo>>

\* serde_json::from_value of the JSON at hand.
Deserialize ==
    /\ pc \in {"serialized", "received"}
    /\ res' = De(Ref(ty), wire)
    /\ pc' = "deserialized"
    /\ UNCHANGED <<ty, val, wire, echo>>

\* serde_json::to_value of what was deserialized.
Reserialize ==
    /\ pc = "deserialized"
    /\ IsOk(res)
    /\ echo' = Ser(Ref(ty), res.ok)
    /\ pc' = "reserialized"
    /\ UNCHANGED <<ty, val, wire, res>>

Next == Construct \/ Serialize \/ Receive \/ Deserialize \/ Reserialize

Spec == Init /\ [][Next]_vars


(* ------------------------------ claims -------------------------------- *)

\* The value that was built, when the program built one.
Built == val # Nothing

\* Whether j is what some value of type t serializes as.
IsSerializationOf(t, j) == LET r == De(t, j) IN IsOk(r) /\ Ser(t, r.ok) = j

\* C1: deserializing the JSON a value serializes as yields a value equal to
\* it, for every value of every type.
C1_RoundTrip == pc = "deserialized" /\ Built => res = Ok(val.some)

\* C2: the JSON of a QueryResponse deserializes to the same variant and the
\* same value, Single to Single and ForEach to ForEach.
C2_SameVariant ==
    pc = "deserialized" /\ Built /\ ty = "QueryResponse" =>
        /\ IsOk(res)
        /\ VariantName(res.ok) = VariantName(val.some)
        /\ res.ok = val.some

\* C3: a ResponseFieldValue deserializes to Relationship exactly when the
\* JSON is the serialization of a ResponseRow, a scalar deserializes to
\* Column of itself, and what Column serialized is never read as
\* Relationship.
C3_FieldValueByShape ==
    pc = "deserialized" /\ ty = "ResponseFieldValue" =>
        /\ (IsOk(res) /\ VariantName(res.ok) = "Relationship")
               <=> IsSerializationOf(Ref("ResponseRow"), wire)
        /\ IsScalar(wire) => res = Ok(Variant("Column", wire))
        /\ Built /\ VariantName(val.some) = "Column" =>
               ~(IsOk(res) /\ VariantName(res.ok) = "Relationship")

OperatorTypes ==
    {"UnaryComparisonOperator", "BinaryComparisonOperator", "BinaryArrayComparisonOperator"}

\* The snake_case names of the operators' known variants.
KnownOperators ==
    [UnaryComparisonOperator |-> [is_null |-> "IsNull"],
     BinaryComparisonOperator |->
        [less_than |-> "LessThan", less_than_or_equal |-> "LessThanOrEqual",
         equal |-> "Equal", greater_than |-> "GreaterThan",
         greater_than_or_equal |-> "GreaterThanOrEqual"],
     BinaryArrayComparisonOperator |-> [in |-> "In"]]

\* C4: every string deserializes as a comparison operator: to the variant
\* it is the snake_case name of, else to Other of the string; and the
\* result serializes as the string.
C4_OperatorsTotal ==
    ty \in OperatorTypes /\ pc \in {"deserialized", "reserialized"} /\ IsStr(wire) =>
        /\ IsOk(res)
        /\ wire.s \in DOMAIN KnownOperators[ty] =>
               res.ok = Variant(KnownOperators[ty][wire.s], TRUE)
        /\ wire.s \notin DOMAIN KnownOperators[ty] => res.ok = Variant("Other", wire.s)
        /\ pc = "reserialized" => echo = wire

C4_Witness ==
    /\ ty = "BinaryComparisonOperator"
    /\ pc = "reserialized"
    /\ ~Built
    /\ wire = JStr("like")
    /\ res = Ok(Variant("Other", "like"))
    /\ echo = JStr("like")

\* The named fields of the value v of the declared type t, and the record
\* holding them: those of a struct, or of the variant an enum value is of.
NamedFields(t, v) ==
    IF t.k = "struct" THEN t.fields
    ELSE IF t.k \in {"tagged", "untagged"} /\ "fields" \in DOMAIN VariantOf(t, v)
    THEN VariantOf(t, v).fields
    ELSE << >>

FieldsOf(t, v) == IF t.k = "struct" THEN v ELSE Payload(v)

\* C5: an optional field that is None is no member of the object its
\* struct, or its variant, serializes as.
C5_NoneOmitted ==
    pc = "serialized" =>
        LET fields == NamedFields(TypeDef(ty), val.some)
        IN  \A i \in DOMAIN fields :
                fields[i].ty.k = "option"
                /\ FieldsOf(TypeDef(ty), val.some)[fields[i].name] = None
                => IsObj(wire) /\ fields[i].wire \notin DOMAIN wire.o

C5_Witness ==
    /\ pc = "serialized"
    /\ ty = "Field"
    /\ VariantName(val.some) = "Array"
    /\ val.some.Array.limit = None
    /\ val.some.Array.offset # None
    /\ "limit" \notin DOMAIN wire.o
    /\ "offset" \in DOMAIN wire.o

TaggedUnions ==
    {"Target", "InterpolatedItem", "FunctionRequestArgument", "ArgumentValue",
     "Aggregate", "Field", "OrderByTarget", "Expression", "ComparisonValue",
     "ExistsInTable", "InsertFieldSchema", "MutationOperation", "RowUpdate"}

\* C6 as stated: a tagged union serializes as an object whose "type" is the
\* snake_case form of the variant's name.
C6_TagIsSnakeCase ==
    pc = "serialized" /\ ty \in TaggedUnions =>
        /\ IsObj(wire)
        /\ "type" \in DOMAIN wire.o
        /\ wire.o["type"] = JStr(SnakeCase(VariantOf(TypeDef(ty), val.some).name))

\* The tag of every variant of the tagged unions.
Tags ==
    [Target |-> [Table |-> "table", Interpolated |-> "interpolated", Function |-> "function"],
     InterpolatedItem |-> [Text |-> "text", Scalar |-> "scalar"],
     FunctionRequestArgument |-> [Named |-> "named"],
     ArgumentValue |-> [Scalar |-> "scalar"],
     Aggregate |-> [ColumnCount |-> "column_count", SingleColumn |-> "single_column",
                    StarCount |-> "star_count"],
     Field |-> [Column |-> "column", Object |-> "object", Array |-> "array",
                Relationship |-> "relationship"],
     OrderByTarget |-> [Column |-> "column",
                        SingleColumnAggregate |-> "single_column_aggregate",
                        StarCountAggregate |-> "star_count_aggregate"],
     Expression |-> [And |-> "and", Or |-> "or", Not |-> "not",
                     ApplyUnaryComparison |-> "unary_op",
                     ApplyBinaryComparison |-> "binary_op",
                     ApplyBinaryArrayComparison |-> "binary_arr_op",
                     Exists |-> "exists"],
     ComparisonValue |-> [Column |-> "column", Scalar |-> "scalar"],
     ExistsInTable |-> [Related |-> "related", Unrelated |-> "unrelated"],
     InsertFieldSchema |-> [ArrayRelation |-> "array_relation", Column |-> "column",
                            ObjectRelation |-> "object_relation"],
     MutationOperation |-> [Delete |-> "delete", Insert |-> "insert", Update |-> "update"],
     RowUpdate |-> [CustomOperator |-> "custom_operator", Set |-> "set"]]

\* C6 as amended: the "type" of a tagged union is the snake_case form of
\* the variant's name, but for Expression's three comparisons, which are
\* unary_op, binary_op and binary_arr_op; an object is deserialized to the
\* variant its "type" is the tag of, and to none when it is no variant's.
C6_TagNamesVariant ==
    ty \in TaggedUnions =>
        /\ pc = "serialized" =>
              /\ IsObj(wire)
              /\ "type" \in DOMAIN wire.o
              /\ wire.o["type"] = JStr(Tags[ty][VariantName(val.some)])
        /\ pc = "deserialized" /\ IsObj(wire) /\ IsOk(res) =>
              /\ "type" \in DOMAIN wire.o
              /\ wire.o["type"] = JStr(Tags[ty][VariantName(res.ok)])
        /\ pc = "deserialized" /\ IsObj(wire) /\ "type" \in DOMAIN wire.o
              /\ IsStr(wire.o["type"])
              /\ wire.o["type"].s \notin {Tags[ty][v] : v \in DOMAIN Tags[ty]}
              => ~IsOk(res)
        /\ pc = "deserialized" /\ Built => IsOk(res) /\ VariantName(res.ok) = VariantName(val.some)

C6_Witness ==
    /\ pc = "deserialized"
    /\ Built
    /\ ty = "Expression"
    /\ VariantName(val.some) = "ApplyUnaryComparison"
    /\ wire.o["type"] = JStr("unary_op")
    /\ IsOk(res)
    /\ VariantName(res.ok) = "ApplyUnaryComparison"

IsStrings(j) == IsArr(j) /\ \A i \in DOMAIN j.a : IsStr(j.a[i])

\* C7: ColumnSelector has no tag: Compound is the array of its strings and
\* Name the bare string; every array of strings reads as Compound, every
\* string as Name, and each reads back as the value that produced it.
C7_ColumnSelectorByShape ==
    ty = "ColumnSelector" =>
        /\ pc = "serialized" /\ VariantName(val.some) = "Compound" =>
              wire = JArr([i \in DOMAIN val.some.Compound |-> JStr(val.some.Compound[i])])
        /\ pc = "serialized" /\ VariantName(val.some) = "Name" => wire = JStr(val.some.Name)
        /\ pc = "deserialized" /\ IsStrings(wire) =>
              res = Ok(Variant("Compound", [i \in DOMAIN wire.a |-> wire.a[i].s]))
        /\ pc = "deserialized" /\ IsStr(wire) => res = Ok(Variant("Name", wire.s))
        /\ pc = "deserialized" /\ Built => res = Ok(val.some)

C7_Witness ==
    /\ ty = "ColumnSelector"
    /\ pc = "deserialized"
    /\ ~Built
    /\ wire = Strs(<<"a">>)
    /\ res = Ok(Variant("Compound", <<"a">>))

ErrorTypeTags ==
    {"uncaught-error", "mutation-constraint-violation", "mutation-permission-check-failure"}

\* C8: ErrorResponseType serializes as one of the three tags, and an
\* ErrorResponse whose "type" is any other string does not deserialize
\* (one whose "type" is one of the three, with a message, does).
C8_ErrorTypeClosed ==
    /\ ty = "ErrorResponseType" /\ pc = "serialized" => IsStr(wire) /\ wire.s \in ErrorTypeTags
    /\ ty = "ErrorResponse" /\ pc = "serialized" /\ val.some["type"] # None =>
          wire.o["type"] \in {JStr(t) : t \in ErrorTypeTags}
    /\ ty = "ErrorResponse" /\ pc = "deserialized" /\ IsObj(wire)
          /\ "type" \in DOMAIN wire.o /\ IsStr(wire.o["type"]) =>
          IF wire.o["type"].s \in ErrorTypeTags
          THEN DOMAIN wire.o = {"message", "type"} /\ IsStr(wire.o["message"]) =>
                   /\ IsOk(res)
                   /\ Ser(Ref("ErrorResponseType"), res.ok["type"].some) = wire.o["type"]
          ELSE ~IsOk(res)

C8_Witness ==
    /\ ty = "ErrorResponse"
    /\ pc = "deserialized"
    /\ wire = Obj(<< <<"message", JStr("m")>>, <<"type", JStr("uncaught_error")>> >>)
    /\ ~IsOk(res)

\* The table and function names the value v of the declared type named t
\* holds itself.
NamesHeld(t, v) ==
    CASE t = "Target" ->
            IF VariantName(v) \in {"Table", "Function"} THEN {Payload(v).name} ELSE {}
      [] t = "TableRelationships" -> {v.source_table}
      [] t = "ExistsInTable" -> IF VariantName(v) = "Unrelated" THEN {v.Unrelated.table} ELSE {}
      [] t = "MutationOperation" -> {Payload(v).table}
      [] t = "TableInsertSchema" -> {v.table}
      [] OTHER -> {}

\* C9: every table or function name a built or a deserialized value holds
\* is non-empty.
C9_NamesNonEmpty ==
    /\ pc = "constructed" => \A name \in NamesHeld(ty, val.some) : name # << >>
    /\ pc = "deserialized" /\ IsOk(res) => \A name \in NamesHeld(ty, res.ok) : name # << >>

============================================================================
